---- MODULE Spec2Model ----
(***************************************************************************)
(* Cookie-session synchronisation of amplify-astro-adapter: the storage    *)
(* driver (session-driver.ts), the process-wide session store, and the     *)
(* request middleware in its variants (middleware.ts, part_001, part_002), *)
(* with the app handler's injectSessionCookieIfNeeded.                     *)
(*                                                                         *)
(* Time is in milliseconds.  Requests of one process interleave at their   *)
(* await points; everything between two awaits is one step.                *)
(***************************************************************************)
EXTENDS Integers, Sequences, FiniteSets, TLC

\* ------------------------------------------------------------------ bounds
MaxRequests == 2      \* requests started in one behaviour
MaxTicks == 1         \* clock advances in one behaviour
MaxHandlerOps == 2    \* driver calls of one handler
MaxDriverTicks == 1   \* clock advances while the driver is exercised on its own
MaxCreates == 2       \* driver constructions in one behaviour
MaxWrites == 2        \* store writes issued directly to the driver in one behaviour
MaxStoreTicks == 2    \* clock advances while the constructed driver is exercised
MaxSetups == 2        \* runs of the astro:config:setup hook in one behaviour

\* ------------------------------------------------------------- value sets
Ids == {"s1", "s2"}          \* astro-session identifiers
Values == {"a", "b"}         \* serialized session values
Slots == {1, 2}              \* requests that can be in flight together
NoId == "none"               \* no astro-session cookie

Pw32 == "0123456789abcdef0123456789abcdef"     \* 32 characters
PwOther == "fedcba9876543210fedcba9876543210"  \* another 32 characters
Pw31 == "0123456789abcdef0123456789abcde"      \* 31 characters
PwShort == "hunter2"
\* sha256(...).digest('hex'): 64 hex characters
DerivedPassword == "9f86d081884c7d659a2feaa0c55ad015a3bf4f1b2b0b822cd15d6c15b0f00a08"

\* ------------------------------------------------------------ the codec
\* A payload string: a seal, the empty string, an unparsable string, or no
\* cookie at all.
Empty == [kind |-> "empty"]
Garbage == [kind |-> "garbage"]
NoCookie == [kind |-> "none"]

\* sealData({_d: v}, {password, ttl}) at time t: the seal authenticates under
\* pw and carries its expiry.
sealData(v, pw, ttl, t) ==
  [kind |-> "sealed", val |-> v, pw |-> pw, exp |-> t + ttl * 1000]

\* unsealData(...)?._d ?? null at time t: a bad seal, a wrong password and
\* an expired seal give {} and so null.
Null == "null"

\* iron-session seals and unseals with iron's defaults, of which
\* timestampSkewSec = 60: a seal counts as expired once its expiry is at
\* least that far in the past.
TIMESTAMP_SKEW_MS == 60 * 1000
Expired(s, t) == s.exp <= t - TIMESTAMP_SKEW_MS

\* An unseal that does not look at the expiry.
unsealData_NoExpiry(s, pw, t) ==
  IF s.kind # "sealed" THEN Null
  ELSE IF s.pw # pw THEN Null
  ELSE s.val

unsealData(s, pw, t) ==
  IF s.kind # "sealed" THEN Null
  ELSE IF s.pw # pw THEN Null
  ELSE IF Expired(s, t) THEN Null
  ELSE s.val

\* ------------------------------------------------------ the session store
NoEntry == [kind |-> "absent"]
Entry(data, dirty, timestamp) ==
  [kind |-> "entry", data |-> data, dirty |-> dirty, timestamp |-> timestamp]

SESSION_STORE_TTL_MS == 5 * 60 * 1000

EmptyStore == [id \in Ids |-> NoEntry]
IsDirtyRecord(e) == e # NoEntry /\ e.dirty

\* Variant: a sweep that spares records not yet written to a cookie.
cleanupSessionStore_SparesDirty(store, t) ==
  [id \in Ids |->
     IF /\ store[id] # NoEntry /\ ~store[id].dirty
        /\ t - store[id].timestamp > SESSION_STORE_TTL_MS
     THEN NoEntry ELSE store[id]]

\* Variant: a record is swept as soon as its age reaches the window.
cleanupSessionStore_AtWindow(store, t) ==
  [id \in Ids |->
     IF store[id] # NoEntry /\ t - store[id].timestamp >= SESSION_STORE_TTL_MS
     THEN NoEntry ELSE store[id]]

\* cleanupSessionStore at time t
cleanupSessionStore(store, t) ==
  [id \in Ids |->
     IF store[id] # NoEntry /\ t - store[id].timestamp > SESSION_STORE_TTL_MS
     THEN NoEntry ELSE store[id]]

\* Variant: clear() keeps the records not yet written to a cookie.
clearStore_SparesDirty(store) ==
  [id \in Ids |-> IF IsDirtyRecord(store[id]) THEN store[id] ELSE NoEntry]

\* clear(): sessionStore.clear()
clearStore(store) == EmptyStore

\* entry?.dirty and entry?.data truthiness
IsDirty(e) == IsDirtyRecord(e)
HasData(e) == e # NoEntry /\ e.data # Empty

\* ------------------------------------------------- the integration's hooks
\* The project root as the astro:config:setup hook sees it.
Absent == [kind |-> "absent"]
UserYaml == [kind |-> "user"]                 \* an amplify.yml the user wrote
LockFiles == {"pnpm-lock.yaml", "yarn.lock", "package-lock.json", "bun.lockb"}

NoProject == [amplifyYml |-> Absent, entries |-> {}, setups |-> 0]

detectPackageManager(entries) ==
  IF "pnpm-lock.yaml" \in entries THEN "pnpm"
  ELSE IF "yarn.lock" \in entries THEN "yarn"
  ELSE IF "package-lock.json" \in entries THEN "npm"
  ELSE IF "bun.lockb" \in entries THEN "bun"
  ELSE "unknown"

\* The build specification for a package manager (its install and build
\* commands and cache paths differ).
getAmplifyYaml(packageManager) ==
  [kind |-> "generated",
   for |-> IF packageManager \in {"npm", "pnpm", "yarn", "bun"}
           THEN packageManager ELSE "unknown"]

\* Variant: the hook writes the file on every run.
setupAmplifyYml_Regenerates(yml, entries) ==
  getAmplifyYaml(detectPackageManager(entries))

\* amplify.yml after the hook: written only if it did not exist.
setupAmplifyYml(yml, entries) ==
  IF yml = Absent THEN getAmplifyYaml(detectPackageManager(entries)) ELSE yml

\* node:fs/promises has an export named exists on Bun and none on Node: there
\* the import fails and the hook does nothing.
Runtimes == {"bun", "node"}

\* ------------------------------------------------------ module instances
\* session-driver.ts can be evaluated more than once in a process: once per
\* import specifier, and again when the toolchain duplicates the module.
\* Each evaluation binds its own export sessionStore.
ModuleInstances == {"package", "relative", "duplicate"}
MapIds == 1 .. Cardinality(ModuleInstances)
Undefined == 0

\* Nothing evaluated yet: globalThis[SESSION_STORE_KEY] is undefined and no
\* Map has been made.  maps[m] is the content of Map m.
NoModules ==
  [global |-> Undefined,
   made |-> 0,
   sessionStore |-> [i \in ModuleInstances |-> Undefined],
   maps |-> [m \in MapIds |-> EmptyStore]]

\* Variant: every evaluation makes its own Map.
loadModule_OwnMap(ms, inst) ==
  [ms EXCEPT !.made = ms.made + 1,
             !.sessionStore[inst] = ms.made + 1]

\* Evaluating the module: sessionStore = (globalThis[SESSION_STORE_KEY] ??= new Map())
loadModule(ms, inst) ==
  IF ms.global = Undefined
  THEN [ms EXCEPT !.made = ms.made + 1,
                  !.global = ms.made + 1,
                  !.sessionStore[inst] = ms.made + 1]
  ELSE [ms EXCEPT !.sessionStore[inst] = ms.global]

\* --------------------------------------------------------- configuration
DEFAULT_TTL == 604800
PASSWORD_MIN == 32

DefaultCookieOptions ==
  [secure |-> TRUE, sameSite |-> "lax", httpOnly |-> TRUE, path |-> "/"]

NoConfig == [kind |-> "null"]
Config(pw, ttl) ==
  [kind |-> "config", password |-> pw, ttl |-> ttl,
   cookieOptions |-> DefaultCookieOptions]

\* Variant: the environment variable is looked at before the option.
ResolvePassword_EnvFirst(optPw, envPw) ==
  IF envPw # "" THEN envPw
  ELSE IF optPw # "" THEN optPw
  ELSE DerivedPassword

\* The password createCookieSessionDriver resolves: the option, else the
\* environment variable, else the derived one ("" is falsy, as undefined).
ResolvePassword(optPw, envPw) ==
  IF optPw # "" THEN optPw
  ELSE IF envPw # "" THEN envPw
  ELSE DerivedPassword

\* A length check that is off by one.
PasswordOk_OffByOne(pw) == ~(Len(pw) < PASSWORD_MIN - 1)

PasswordOk(pw) == ~(Len(pw) < PASSWORD_MIN)

VARIABLES
  mw,              \* which middleware is installed
  sessionStore,    \* the process-wide Map of session-driver.ts
  now,             \* Date.now()
  ticks,           \* clock advances so far
  resolvedConfig,  \* module-level resolvedConfig (getDriverConfig)
  driver,          \* config closed over by the driver in use, or NoConfig
  last,            \* outcome of the latest driver call or construction
  calls,           \* [creates, writes]: constructions and direct writes so far
  req,             \* the request in each slot: position in onRequest and its locals
  fin,             \* session finalizers (persist) scheduled and not yet run
  started,         \* requests started so far
  jar,             \* per session id, the astro-session-data cookie the client holds
  lastWrite,       \* per session id, the latest setItem/removeItem and who made it
  globalContext,   \* globalThis[CONTEXT_KEY]: the context setDriverContext stored
  modules,         \* module instances of session-driver.ts and the Maps they hold
  project          \* the project root: amplify.yml, lock files, hook runs so far

reqVars == <<req, fin, started, jar, lastWrite>>
vars == <<mw, sessionStore, now, ticks, resolvedConfig, driver, last, calls,
          req, fin, started, jar, lastWrite, globalContext, modules, project>>

NoOp == [op |-> "none"]

\* ------------------------------------------------------------ the driver
OptPasswords == {"", Pw31, Pw32}
EnvPasswords == {"", PwShort, Pw32}
TtlOptions == {DEFAULT_TTL, 1}

createCookieSessionDriver(optPw, optTtl, envPw) ==
  LET pw == ResolvePassword(optPw, envPw)
      warned == optPw = "" /\ envPw = ""
  IN IF PasswordOk(pw)
     THEN /\ driver' = Config(pw, optTtl)
          /\ resolvedConfig' = Config(pw, optTtl)
          /\ last' = [op |-> "create", result |-> "ok", optPw |-> optPw,
                      envPw |-> envPw, warned |-> warned]
     ELSE /\ UNCHANGED <<driver, resolvedConfig>>
          /\ last' = [op |-> "create", result |-> "throw", optPw |-> optPw,
                      envPw |-> envPw, warned |-> warned]

\* getItem: codecError is an internal failure of the crypto primitive while
\* unsealing; the catch clause turns every throw into null.
getItemResult(store, cfg, id, t, codecError) ==
  IF store[id] = NoEntry THEN Null
  ELSE IF codecError THEN Null
  ELSE unsealData(store[id].data, cfg.password, t)

\* Variant: the payload is sealed under the derived password, whatever the
\* configuration says.
setItemStore_DerivedPassword(store, cfg, id, v, t, codecError) ==
  IF codecError THEN store
  ELSE [store EXCEPT ![id] = Entry(sealData(v, DerivedPassword, cfg.ttl, t), TRUE, t)]

\* setItem: the store after it (sealData threw: nothing is stored).
setItemStore(store, cfg, id, v, t, codecError) ==
  IF codecError THEN store
  ELSE [store EXCEPT ![id] = Entry(sealData(v, cfg.password, cfg.ttl, t), TRUE, t)]

\* Variant: removeItem deletes the record at once.
removeItemStore_Deletes(store, id, t) ==
  [store EXCEPT ![id] = NoEntry]

removeItemStore(store, id, t) ==
  [store EXCEPT ![id] = Entry(Empty, TRUE, t)]

hasItemResult(store, id) == store[id] # NoEntry

\* Variant: getKeys lists the ids that have a record.
getKeysResult_ListsRecords ==
  IF \E id \in Ids : sessionStore[id] # NoEntry
  THEN <<CHOOSE id \in Ids : sessionStore[id] # NoEntry>> ELSE << >>

getKeysResult == << >>

\* ------------------------------------------------------------- requests
NoWrite == [kind |-> "none"]
Gone == 0          \* in place of the slot of a request that has been answered

\* The record of a setItem/removeItem by the request in slot r: whether its
\* payload has been sent in a Set-Cookie, and whether a later request of the
\* session has arrived.
Written(data, r) ==
  [kind |-> "write", data |-> data, by |-> r, delivered |-> FALSE, nexted |-> FALSE]

MarkDelivered(lw, id, emit) ==
  IF emit # << >> /\ id # NoId /\ lw[id].kind = "write"
     /\ emit[1].op = "set" /\ emit[1].data = lw[id].data
  THEN [lw EXCEPT ![id].delivered = TRUE] ELSE lw

MarkArrival(lw, sid) ==
  IF sid # NoId /\ lw[sid].kind = "write"
  THEN [lw EXCEPT ![sid].nexted = TRUE] ELSE lw

\* ------------------------------------------------- the request context
\* A DriverContext is identified by the request it was built for (1, 2, ...).
NoContext == 0

setDriverContext(ctx) == globalContext' = ctx
getDriverContext == globalContext

\* Variant: one register shared by every call tree.
run_SharedRegister(rq, r, ctx) ==
  [o \in DOMAIN rq |-> [rq[o] EXCEPT !.alsStore = ctx]]

\* driverContextStorage.run(ctx, fn): ctx is the store inside fn's own
\* asynchronous call tree (slot r), and nowhere else.
run(rq, r, ctx) == [rq EXCEPT ![r].alsStore = ctx]

\* run() has returned: the caller continues outside the store.
exitRun(rq, r) == [rq EXCEPT ![r].alsStore = NoContext]

IdleReq ==
  [pc |-> "idle",        \* idle, bwait, handler, after, tick, poll, itick, done
   sid |-> NoId,         \* astro-session cookie of the request
   cookie |-> NoCookie,  \* astro-session-data cookie of the request
   newSid |-> NoId,      \* astro-session cookie set while handling
   sync |-> FALSE,       \* needsCookieSync
   i |-> 0,              \* loop counter of the wait in progress
   status |-> 0,         \* status of the handler's response
   hdr |-> << >>,        \* astro-session-data Set-Cookie effects on the response
   ops |-> 0,            \* driver calls the handler has made
   finPc |-> "none",     \* where this request was when its finalizer ran
   owed |-> NoCookie,    \* payload of the dirty record found on arrival
   owes |-> FALSE,       \* first request of its session after an undelivered write
   sealing |-> Null,     \* value of the setItem awaiting sealData, if any
   driverContext |-> NoContext,  \* the DriverContext built for this request
   alsStore |-> NoContext]       \* driverContextStorage.getStore() in its call tree

\* context.cookies.get('astro-session') once the handler has run
CurSid(q) == IF q.newSid # NoId THEN q.newSid ELSE q.sid

SetCookie(data) == [op |-> "set", data |-> data]
DeleteCookie == [op |-> "delete"]

\* ---------------------------------------------------------------- clock
\* Clock steps: one that reaches the end of the codec's allowance after a
\* one-second payload ttl, one of half that (past the ttl, within the
\* allowance), and one that crosses the store's eviction window.
DriverTickSteps == {1000 + TIMESTAMP_SKEW_MS}
StoreTickSteps == {(1000 + TIMESTAMP_SKEW_MS) \div 2}
RequestTickSteps == {SESSION_STORE_TTL_MS + 1}

\* A request lasts milliseconds: the clock's coarse steps fall between
\* requests (a pending persist() may still run after them).
Tick(max, steps) ==
  /\ ticks < max
  /\ \A r \in Slots : req[r].pc = "idle"
  /\ \E d \in steps : now' = now + d
  /\ ticks' = ticks + 1
  /\ UNCHANGED <<mw, project, modules, globalContext, sessionStore, resolvedConfig, driver, last, calls, reqVars>>

\* No request has arrived.
NoRequests ==
  /\ req = [r \in Slots |-> IdleReq]
  /\ fin = {}
  /\ started = 0
  /\ jar = [id \in Ids |-> NoCookie]
  /\ lastWrite = [id \in Ids |-> NoWrite]
  /\ globalContext = NoContext
  /\ modules = NoModules
  /\ project = NoProject

\* ------------------------------------------- the driver on its own
DCreate ==
  /\ calls.creates < MaxCreates
  /\ calls' = [calls EXCEPT !.creates = @ + 1]
  /\ \E optPw \in OptPasswords, optTtl \in TtlOptions, envPw \in EnvPasswords :
       createCookieSessionDriver(optPw, optTtl, envPw)
  /\ UNCHANGED <<mw, project, modules, globalContext, sessionStore, now, ticks, reqVars>>

DGetItem ==
  /\ driver # NoConfig
  /\ \E id \in Ids, codecError \in BOOLEAN :
       last' = [op |-> "getItem", id |-> id, codecError |-> codecError,
                result |-> getItemResult(sessionStore, driver, id, now, codecError)]
  /\ UNCHANGED <<mw, project, modules, globalContext, sessionStore, now, ticks, resolvedConfig, driver, calls, reqVars>>

DSetItem ==
  /\ driver # NoConfig
  /\ calls.writes < MaxWrites
  /\ calls' = [calls EXCEPT !.writes = @ + 1]
  /\ \E id \in Ids, v \in Values, codecError \in BOOLEAN :
       /\ sessionStore' = setItemStore(sessionStore, driver, id, v, now, codecError)
       /\ last' = [op |-> "setItem", id |-> id, codecError |-> codecError,
                   val |-> v,
                   result |-> IF codecError THEN "throw" ELSE "ok"]
  /\ UNCHANGED <<mw, project, modules, globalContext, now, ticks, resolvedConfig, driver, reqVars>>

DRemoveItem ==
  /\ driver # NoConfig
  /\ calls.writes < MaxWrites
  /\ calls' = [calls EXCEPT !.writes = @ + 1]
  /\ \E id \in Ids :
       /\ sessionStore' = removeItemStore(sessionStore, id, now)
       /\ last' = [op |-> "removeItem", id |-> id, result |-> "ok"]
  /\ UNCHANGED <<mw, project, modules, globalContext, now, ticks, resolvedConfig, driver, reqVars>>

\* What a client may send as its astro-session-data cookie: an unparsable
\* string, or a seal made under another password.
ClientCookies == {Garbage, sealData("a", PwOther, DEFAULT_TTL, 0)}

\* The before phase's seeding of a cold store from the request's cookie
\* (any string the client sends).
DSeed ==
  /\ calls.writes < MaxWrites
  /\ calls' = [calls EXCEPT !.writes = @ + 1]
  /\ \E id \in Ids, c \in ClientCookies :
       /\ sessionStore[id] = NoEntry
       /\ sessionStore' = [sessionStore EXCEPT ![id] = Entry(c, FALSE, now)]
  /\ last' = NoOp
  /\ UNCHANGED <<mw, project, modules, globalContext, now, ticks, resolvedConfig, driver, reqVars>>

InitDriver ==
  /\ mw = "driver"
  /\ sessionStore = EmptyStore
  /\ now = 0
  /\ ticks = 0
  /\ resolvedConfig = NoConfig
  /\ driver = NoConfig
  /\ last = NoOp
  /\ calls = [creates |-> 0, writes |-> 0]
  /\ NoRequests

DTick == Tick(MaxDriverTicks, DriverTickSteps)

NextDriver == DCreate \/ DGetItem \/ DSetItem \/ DRemoveItem \/ DSeed \/ DTick

SpecDriver == InitDriver /\ [][NextDriver]_vars

\* ------------------------------- the driver, constructed at startup
DGetKeys ==
  /\ driver # NoConfig
  /\ last' = [op |-> "getKeys", result |-> getKeysResult]
  /\ UNCHANGED <<mw, project, modules, globalContext, sessionStore, now, ticks, resolvedConfig, driver, calls, reqVars>>

DHasItem ==
  /\ driver # NoConfig
  /\ \E id \in Ids :
       last' = [op |-> "hasItem", id |-> id, result |-> hasItemResult(sessionStore, id)]
  /\ UNCHANGED <<mw, project, modules, globalContext, sessionStore, now, ticks, resolvedConfig, driver, calls, reqVars>>

STick == Tick(MaxStoreTicks, StoreTickSteps)

InitStore ==
  /\ mw = "store"
  /\ sessionStore = EmptyStore
  /\ now = 0
  /\ ticks = 0
  /\ \E ttl \in TtlOptions :
       /\ resolvedConfig = Config(Pw32, ttl)
       /\ driver = Config(Pw32, ttl)
  /\ last = NoOp
  /\ calls = [creates |-> 0, writes |-> 0]
  /\ NoRequests

NextStore ==
  DGetItem \/ DSetItem \/ DRemoveItem \/ DSeed \/ DGetKeys \/ DHasItem \/ STick

SpecStore == InitStore /\ [][NextStore]_vars

\* ------------------------------- clear() and dispose() of the driver
DClear ==
  /\ driver # NoConfig
  /\ sessionStore' = clearStore(sessionStore)
  /\ last' = [op |-> "clear", cleared |-> sessionStore]
  /\ UNCHANGED <<mw, project, modules, globalContext, now, ticks, resolvedConfig, driver, calls, reqVars>>

\* dispose(): no resources to clean up
DDispose ==
  /\ driver # NoConfig
  /\ last' = [op |-> "dispose"]
  /\ UNCHANGED <<mw, project, modules, globalContext, sessionStore, now, ticks, resolvedConfig, driver, calls, reqVars>>

InitClear ==
  /\ mw = "clear"
  /\ sessionStore = EmptyStore
  /\ now = 0
  /\ ticks = 0
  /\ resolvedConfig = Config(Pw32, DEFAULT_TTL)
  /\ driver = Config(Pw32, DEFAULT_TTL)
  /\ last = NoOp
  /\ calls = [creates |-> 0, writes |-> 0]
  /\ NoRequests

NextClear == DSetItem \/ DRemoveItem \/ DSeed \/ DClear \/ DDispose \/ STick

SpecClear == InitClear /\ [][NextClear]_vars

\* ------------------------------- cleanupSessionStore on records of any age
\* The clock moves by the eviction window or by a millisecond, so that a
\* sweep meets records younger than, exactly as old as, and older than the
\* window.
SweepTickSteps == {SESSION_STORE_TTL_MS, 1}

SwTick == Tick(MaxStoreTicks, SweepTickSteps)

\* A call of cleanupSessionStore (one per instant: a second call at the same
\* time finds nothing more to remove).
DCleanup ==
  /\ last.op = "cleanup" => last.at # now
  /\ sessionStore' = cleanupSessionStore(sessionStore, now)
  /\ last' = [op |-> "cleanup", at |-> now,
              removed |-> {id \in Ids : sessionStore[id] # NoEntry
                                        /\ sessionStore'[id] = NoEntry}]
  /\ UNCHANGED <<mw, project, modules, globalContext, now, ticks, resolvedConfig, driver, calls, reqVars>>

InitSweep ==
  /\ mw = "sweep"
  /\ sessionStore = EmptyStore
  /\ now = 0
  /\ ticks = 0
  /\ resolvedConfig = Config(Pw32, DEFAULT_TTL)
  /\ driver = Config(Pw32, DEFAULT_TTL)
  /\ last = NoOp
  /\ calls = [creates |-> 0, writes |-> 0]
  /\ NoRequests

NextSweep == DSetItem \/ DRemoveItem \/ DSeed \/ DCleanup \/ SwTick

SpecSweep == InitSweep /\ [][NextSweep]_vars

\* ------------------------------- the Domain attribute of the data cookie
\* A hostname is its sequence of labels; a Domain attribute is a hostname
\* with or without a leading dot.
Hostnames ==
  {<<"localhost">>, <<"127", "0", "0", "1">>, <<"example", "com">>,
   <<"www", "example", "com">>, <<"app", "example", "com">>,
   <<"www", "app", "example", "com">>, <<"www">>}
NoDomain == [kind |-> "undefined"]
Domain(dot, name) == [kind |-> "domain", dot |-> dot, name |-> name]
\* cookieOptions.domain as the application may configure it
ConfiguredDomains ==
  {NoDomain, Domain(TRUE, <<"example", "org">>), Domain(FALSE, <<"example", "org">>)}

ConfigWithDomain(d) ==
  [kind |-> "config", password |-> Pw32, ttl |-> DEFAULT_TTL,
   cookieOptions |-> [secure |-> TRUE, sameSite |-> "lax", httpOnly |-> TRUE,
                      path |-> "/", domain |-> d]]

isLocalhost(hostname) == hostname = <<"localhost">> \/ hostname = <<"127", "0", "0", "1">>

\* hostname.replace(/^www\./, '')
replaceWww(hostname) ==
  IF Len(hostname) > 1 /\ hostname[1] = "www" THEN Tail(hostname) ELSE hostname

\* part_001, after phase: cookieOptions.domain, else none on localhost, else
\* `.${url.hostname}`
domainP1(configured, hostname) ==
  IF configured # NoDomain THEN configured
  ELSE IF isLocalhost(hostname) THEN NoDomain
  ELSE Domain(TRUE, hostname)

\* middleware.ts (first onRequest), after phase: domain: cookieOptions?.domain
domainV1(configured, hostname) == configured

\* part_002, redirect path: '.' + hostname.replace(/^www\./, '')
cookieDomainP2(configured, hostname) ==
  IF isLocalhost(hostname) THEN NoDomain ELSE Domain(TRUE, replaceWww(hostname))

\* middleware.ts (second onRequest), deferred sync
cookieDomainMw(configured, hostname) ==
  IF isLocalhost(hostname) THEN NoDomain ELSE Domain(TRUE, replaceWww(hostname))

\* injectSessionCookieIfNeeded: !isLocalhost && cookieOptions?.domain
domainInject(configured, hostname) ==
  IF ~isLocalhost(hostname) /\ configured # NoDomain THEN configured ELSE NoDomain

EmissionPaths == {"after", "after (first onRequest)", "redirect", "deferred sync", "fallback"}

domainOn(path, configured, hostname) ==
  CASE path = "after" -> domainP1(configured, hostname)
    [] path = "after (first onRequest)" -> domainV1(configured, hostname)
    [] path = "redirect" -> cookieDomainP2(configured, hostname)
    [] path = "deferred sync" -> cookieDomainMw(configured, hostname)
    [] path = "fallback" -> domainInject(configured, hostname)

\* A request for a host arrives.
RequestUrl ==
  /\ \E h \in Hostnames : last' = [op |-> "url", hostname |-> h]
  /\ UNCHANGED <<mw, project, modules, globalContext, sessionStore, now, ticks, resolvedConfig, driver, calls, reqVars>>

\* The session-data cookie of the request is emitted on one of the paths.
EmitDataCookie ==
  /\ last.op \in {"url", "Set-Cookie"}
  /\ \E path \in EmissionPaths :
       last' = [op |-> "Set-Cookie", path |-> path, hostname |-> last.hostname,
                domain |-> domainOn(path, resolvedConfig.cookieOptions.domain,
                                    last.hostname)]
  /\ UNCHANGED <<mw, project, modules, globalContext, sessionStore, now, ticks, resolvedConfig, driver, calls, reqVars>>

InitDomain ==
  /\ mw = "domain"
  /\ sessionStore = EmptyStore
  /\ now = 0
  /\ ticks = 0
  /\ \E d \in ConfiguredDomains :
       /\ resolvedConfig = ConfigWithDomain(d)
       /\ driver = ConfigWithDomain(d)
  /\ last = NoOp
  /\ calls = [creates |-> 0, writes |-> 0]
  /\ NoRequests

NextDomain == RequestUrl \/ EmitDataCookie

SpecDomain == InitDomain /\ [][NextDomain]_vars

\* ------------------------------- the Secure attribute of the data cookie
\* An optional boolean is the set of its values: empty when it is not given.
Unset == {}
Schemes == {"http", "https"}
SecureOptions == {Unset, {TRUE}, {FALSE}}

\* cookieOptions: {...DEFAULTS.cookieOptions, ...options.cookieOptions}
mergeSecure(optSecure) ==
  IF optSecure = Unset THEN {DefaultCookieOptions.secure} ELSE optSecure

ConfigWithSecure(optSecure) ==
  [kind |-> "config", password |-> Pw32, ttl |-> DEFAULT_TTL,
   cookieOptions |-> [secure |-> mergeSecure(optSecure), sameSite |-> "lax",
                      httpOnly |-> TRUE, path |-> "/"]]

\* request.url.startsWith('https://')
isSecure(scheme) == scheme = "https"

\* cookieOptions?.secure ?? fallback
secureOr(configured, fallback) ==
  IF configured = Unset THEN fallback ELSE CHOOSE b \in configured : TRUE

\* Whether the cookie emitted on a path carries Secure.
secureOn(path, configured, scheme) ==
  IF path = "after (first onRequest)" THEN secureOr(configured, TRUE)
  ELSE secureOr(configured, isSecure(scheme))

\* createCookieSessionDriver({cookieOptions: {secure}}) or without the option
CreateWithSecure ==
  /\ \E o \in SecureOptions :
       /\ resolvedConfig' = ConfigWithSecure(o)
       /\ driver' = ConfigWithSecure(o)
       /\ last' = [op |-> "create", optSecure |-> o]
  /\ UNCHANGED <<mw, project, modules, globalContext, sessionStore, now, ticks, calls, reqVars>>

\* A request arrives at scheme://hostname/.
SecureRequest ==
  /\ resolvedConfig # NoConfig
  /\ \E sch \in Schemes, h \in Hostnames :
       last' = [op |-> "url", optSecure |-> last.optSecure, scheme |-> sch,
                hostname |-> h]
  /\ UNCHANGED <<mw, project, modules, globalContext, sessionStore, now, ticks, resolvedConfig, driver, calls, reqVars>>

\* The session-data cookie of the request is emitted on one of the paths.
EmitSecure ==
  /\ last.op \in {"url", "Set-Cookie"}
  /\ \E path \in EmissionPaths :
       last' = [op |-> "Set-Cookie", optSecure |-> last.optSecure, path |-> path,
                scheme |-> last.scheme, hostname |-> last.hostname,
                secure |-> secureOn(path, resolvedConfig.cookieOptions.secure,
                                    last.scheme)]
  /\ UNCHANGED <<mw, project, modules, globalContext, sessionStore, now, ticks, resolvedConfig, driver, calls, reqVars>>

InitSecure ==
  /\ mw = "secure"
  /\ sessionStore = EmptyStore
  /\ now = 0
  /\ ticks = 0
  /\ resolvedConfig = NoConfig
  /\ driver = NoConfig
  /\ last = NoOp
  /\ calls = [creates |-> 0, writes |-> 0]
  /\ NoRequests

NextSecure == CreateWithSecure \/ SecureRequest \/ EmitSecure

SpecSecure == InitSecure /\ [][NextSecure]_vars

\* ---------------------------------------------- astro:config:setup
AstroConfigSetup ==
  /\ project.setups < MaxSetups
  /\ \E rt \in Runtimes :
       IF rt = "node"
       THEN /\ project' = [project EXCEPT !.setups = @ + 1]
            /\ last' = [op |-> "setup", result |-> "throw", created |-> FALSE]
       ELSE /\ project' = [project EXCEPT
                             !.setups = @ + 1,
                             !.amplifyYml = setupAmplifyYml(project.amplifyYml,
                                                            project.entries)]
            /\ last' = [op |-> "setup", result |-> "ok",
                        created |-> project.amplifyYml = Absent]
  /\ UNCHANGED <<mw, sessionStore, now, ticks, resolvedConfig, driver, calls,
                 reqVars, globalContext, modules>>

\* Between runs the user writes, edits or deletes amplify.yml, and lock files
\* come and go.
UserEdits ==
  /\ \/ \E y \in {UserYaml, Absent} :
          /\ y # project.amplifyYml
          /\ project' = [project EXCEPT !.amplifyYml = y]
     \/ \E f \in LockFiles :
          project' = [project EXCEPT !.entries =
                        IF f \in @ THEN @ \ {f} ELSE @ \cup {f}]
  /\ last' = NoOp
  /\ UNCHANGED <<mw, sessionStore, now, ticks, resolvedConfig, driver, calls,
                 reqVars, globalContext, modules>>

InitSetup ==
  /\ mw = "setup"
  /\ sessionStore = EmptyStore
  /\ now = 0
  /\ ticks = 0
  /\ resolvedConfig = NoConfig
  /\ driver = NoConfig
  /\ last = NoOp
  /\ calls = [creates |-> 0, writes |-> 0]
  /\ NoRequests

NextSetup == AstroConfigSetup \/ UserEdits

SpecSetup == InitSetup /\ [][NextSetup]_vars

\* -------------------------------- the store through each module instance
\* The driver, the middleware and the app handler reach the store through
\* the sessionStore export of the module instance they imported.
LoadModule ==
  /\ \E inst \in ModuleInstances :
       /\ modules.sessionStore[inst] = Undefined
       /\ modules' = loadModule(modules, inst)
  /\ last' = NoOp
  /\ UNCHANGED <<mw, project, sessionStore, now, ticks, resolvedConfig, driver, calls,
                 reqVars, globalContext>>

\* A write through instance inst: the driver's setItem and removeItem, the
\* hooks' marking a record clean and deleting it.
WriteThrough(inst, id, store) ==
  /\ modules.sessionStore[inst] # Undefined
  /\ modules' = [modules EXCEPT !.maps[modules.sessionStore[inst]] = store]
  /\ last' = [op |-> "write", inst |-> inst, id |-> id, entry |-> store[id]]
  /\ UNCHANGED <<mw, project, sessionStore, now, ticks, resolvedConfig, driver, calls,
                 reqVars, globalContext>>

MapOf(inst) == modules.maps[modules.sessionStore[inst]]

MSetItem ==
  \E inst \in ModuleInstances, id \in Ids, v \in Values :
    /\ modules.sessionStore[inst] # Undefined
    /\ WriteThrough(inst, id, setItemStore(MapOf(inst), driver, id, v, now, FALSE))

MRemoveItem ==
  \E inst \in ModuleInstances, id \in Ids :
    /\ modules.sessionStore[inst] # Undefined
    /\ WriteThrough(inst, id, removeItemStore(MapOf(inst), id, now))

MMarkClean ==
  \E inst \in ModuleInstances, id \in Ids :
    /\ modules.sessionStore[inst] # Undefined
    /\ HasData(MapOf(inst)[id])
    /\ MapOf(inst)[id].dirty
    /\ WriteThrough(inst, id, [MapOf(inst) EXCEPT ![id].dirty = FALSE])

MDelete ==
  \E inst \in ModuleInstances, id \in Ids :
    /\ modules.sessionStore[inst] # Undefined
    /\ MapOf(inst)[id] # NoEntry
    /\ WriteThrough(inst, id, [MapOf(inst) EXCEPT ![id] = NoEntry])

InitModules ==
  /\ mw = "modules"
  /\ sessionStore = EmptyStore
  /\ now = 0
  /\ ticks = 0
  /\ resolvedConfig = Config(Pw32, DEFAULT_TTL)
  /\ driver = Config(Pw32, DEFAULT_TTL)
  /\ last = NoOp
  /\ calls = [creates |-> 0, writes |-> 0]
  /\ NoRequests

NextModules == LoadModule \/ MSetItem \/ MRemoveItem \/ MMarkClean \/ MDelete

SpecModules == InitModules /\ [][NextModules]_vars

\* ------------------------------------------- what every request does
\* The requests exercised belong to one session.
ReqIds == IF mw = "Mwi" THEN Ids ELSE {"s1"}

\* Which onRequest is installed; "P1c" and "Mwc" are the same code serving
\* requests that overlap.
P1Installed == mw \in {"P1", "P1c"}
MwInstalled == mw \in {"Mw", "Mwc", "Mwd", "Mwi"}
\* "P2r" is the onRequest of part_002 serving handlers that answer with any
\* of the redirect statuses.
P2Installed == mw \in {"P2", "P2r"}

\* The driver is constructed once, at startup (astro.config).
StartupConfig == Config(Pw32, DEFAULT_TTL)

\* A cookie the client may hold from before this process started.
OldCookie == sealData("a", Pw32, DEFAULT_TTL, 0)

InitRequests(m) ==
  /\ mw = m
  /\ sessionStore = EmptyStore
  /\ now = 0
  /\ ticks = 0
  /\ resolvedConfig = StartupConfig
  /\ driver = StartupConfig
  /\ last = NoOp
  /\ calls = [creates |-> 0, writes |-> 0]
  /\ req = [r \in Slots |-> IdleReq]
  /\ fin = {}
  /\ started = 0
  /\ jar \in [Ids -> {NoCookie, OldCookie}]
  /\ \A id \in Ids \ ReqIds : jar[id] = NoCookie
  /\ lastWrite = [id \in Ids |-> NoWrite]
  /\ globalContext = NoContext
  /\ modules = NoModules
  /\ project = NoProject

driverVars == <<resolvedConfig, driver, last, calls>>

\* The cookies a request for sid may carry: the client's, or none.
RequestCookies(sid) == IF sid = NoId THEN {NoCookie} ELSE {NoCookie, jar[sid]}

\* The installations in which requests overlap; in the others each request is
\* answered before the next one arrives (persist() may still be pending).
Concurrent == {"P1c", "Mwc"}

\* A request arrives in the first free slot.  Overlapping requests are
\* exercised one per slot.
\* "Mwd" follows a session through one request more than the others: the
\* request that destroys it, the one whose sweep evicts the tombstone, and the
\* one that comes back with the old cookie.
RequestLimit == IF mw = "Mwd" THEN MaxRequests + 1 ELSE MaxRequests

FreeSlot(r) ==
  /\ req[r].pc = "idle"
  /\ mw \in Concurrent \/ \A o \in Slots : req[o].pc = "idle"
  /\ \A o \in Slots : req[o].pc = "idle" => ~(o < r)
  /\ started < RequestLimit
  /\ mw \in Concurrent => started < Cardinality(Slots)

Arrive(r, sid, c) ==
  LET e == IF sid = NoId THEN NoEntry ELSE sessionStore[sid]
      w == IF sid = NoId THEN NoWrite ELSE lastWrite[sid]
  IN [IdleReq EXCEPT !.sid = sid, !.cookie = c,
                     !.owed = IF IsDirty(e) THEN e.data ELSE NoCookie,
                     !.owes = /\ w.kind = "write" /\ w.data # Empty
                              /\ ~w.delivered /\ ~w.nexted]

\* The response has been written; the slot is free again.
Deliver(r) ==
  /\ req[r].pc = "done"
  /\ req' = [req EXCEPT ![r] = IdleReq]
  /\ fin' = {[f EXCEPT !.by = IF f.by = r THEN Gone ELSE f.by] : f \in fin}
  /\ lastWrite' = [id \in Ids |->
                     IF lastWrite[id] # NoWrite /\ lastWrite[id].by = r
                     THEN [lastWrite[id] EXCEPT !.by = Gone] ELSE lastWrite[id]]
  /\ UNCHANGED <<mw, project, modules, globalContext, sessionStore, now, ticks, driverVars, started, jar>>

\* The handler sets the astro-session cookie: a new session, or the cookie of
\* the request's session refreshed.
HCreateSession(r) ==
  /\ req[r].pc = "handler"
  /\ req[r].newSid = NoId
  /\ \E id \in ReqIds :
       /\ req[r].sid # NoId => id = req[r].sid
       /\ req' = [req EXCEPT ![r].newSid = id]
  /\ UNCHANGED <<mw, project, modules, globalContext, sessionStore, now, ticks, driverVars, fin, started, jar, lastWrite>>

\* The handler's session calls reach the driver under the request's session id.
HSetItem(r) ==
  /\ req[r].pc = "handler"
  /\ req[r].ops < MaxHandlerOps
  /\ CurSid(req[r]) # NoId
  /\ \E v \in Values :
       LET id == CurSid(req[r])
           store == setItemStore(sessionStore, driver, id, v, now, FALSE)
       IN /\ sessionStore' = store
          /\ lastWrite' = [lastWrite EXCEPT ![id] = Written(store[id].data, r)]
  /\ req' = [req EXCEPT ![r].ops = @ + 1]
  /\ UNCHANGED <<mw, project, modules, globalContext, now, ticks, driverVars, fin, started, jar>>

\* setItem in two steps, as requests in flight together see it: the call
\* awaits sealData, and the record is set when the seal is ready.
HSetItemBegin(r) ==
  /\ req[r].pc = "handler"
  /\ req[r].ops < MaxHandlerOps
  /\ CurSid(req[r]) # NoId
  /\ req[r].sealing = Null
  /\ \E v \in Values : req' = [req EXCEPT ![r].sealing = v]
  /\ UNCHANGED <<mw, project, modules, globalContext, sessionStore, now, ticks, driverVars, fin, started, jar, lastWrite>>

HSetItemEnd(r) ==
  /\ req[r].pc = "handler"
  /\ req[r].sealing # Null
  /\ LET id == CurSid(req[r])
         store == setItemStore(sessionStore, driver, id, req[r].sealing, now, FALSE)
     IN /\ sessionStore' = store
        /\ lastWrite' = [lastWrite EXCEPT ![id] = Written(store[id].data, r)]
  /\ req' = [req EXCEPT ![r].ops = @ + 1, ![r].sealing = Null]
  /\ UNCHANGED <<mw, project, modules, globalContext, now, ticks, driverVars, fin, started, jar>>

HRemoveItem(r) ==
  /\ req[r].pc = "handler"
  /\ req[r].sealing = Null
  /\ req[r].ops < MaxHandlerOps
  /\ CurSid(req[r]) # NoId
  /\ LET id == CurSid(req[r])
     IN /\ sessionStore' = removeItemStore(sessionStore, id, now)
        /\ lastWrite' = [lastWrite EXCEPT ![id] = Written(Empty, r)]
  /\ req' = [req EXCEPT ![r].ops = @ + 1]
  /\ UNCHANGED <<mw, project, modules, globalContext, now, ticks, driverVars, fin, started, jar>>

\* The handler reads its session: getItem under the request's session id.
\* The outcome is kept in last, with the call it belongs to.
HGetItem(r) ==
  /\ req[r].pc = "handler"
  /\ req[r].ops < MaxHandlerOps
  /\ req[r].sealing = Null
  /\ CurSid(req[r]) # NoId
  /\ LET id == CurSid(req[r])
     IN last' = [op |-> "getItem", id |-> id, codecError |-> FALSE,
                 call |-> <<started, req[r].ops + 1>>,
                 result |-> getItemResult(sessionStore, driver, id, now, FALSE)]
  /\ req' = [req EXCEPT ![r].ops = @ + 1]
  /\ UNCHANGED <<mw, project, modules, globalContext, sessionStore, now, ticks, resolvedConfig, driver, calls,
                 fin, started, jar, lastWrite>>

\* clear(): sessionStore.clear()
HClear(r) ==
  /\ req[r].pc = "handler"
  /\ req[r].ops < MaxHandlerOps
  /\ sessionStore' = clearStore(sessionStore)
  /\ lastWrite' = [id \in Ids |-> NoWrite]
  /\ req' = [req EXCEPT ![r].ops = @ + 1]
  /\ UNCHANGED <<mw, project, modules, globalContext, now, ticks, driverVars, fin, started, jar>>

RedirectStatuses == {301, 302, 303, 307, 308}
Statuses == IF mw = "P2r" THEN RedirectStatuses ELSE {200, 302}
\* What persist() writes when it runs late: the session's final value.
FinValues == {"b"}
FinOps(id) == {[op |-> "set", id |-> id, val |-> v] : v \in FinValues}

\* next() resolves with the handler's response.  The session's persist() may
\* still be pending: it runs in a finally block of the framework.
HandlerReturn(r) ==
  /\ req[r].pc = "handler"
  /\ req[r].sealing = Null
  /\ \E st \in Statuses :
       /\ req' = exitRun([req EXCEPT ![r].pc = "after", ![r].status = st], r)
       /\ \/ UNCHANGED fin
          \/ /\ req[r].ops < MaxHandlerOps
             /\ CurSid(req[r]) # NoId
             /\ fin = {}
             /\ \E f \in FinOps(CurSid(req[r])) :
                  fin' = {[by |-> r, op |-> f]}
  /\ UNCHANGED <<mw, project, modules, globalContext, sessionStore, now, ticks, driverVars, started, jar, lastWrite>>

\* A pending persist() calls setItem.
FinalizerRun ==
  \E f \in fin :
    LET id == f.op.id
        store == setItemStore(sessionStore, driver, id, f.op.val, now, FALSE)
    IN /\ sessionStore' = store
       /\ lastWrite' = [lastWrite EXCEPT ![id] = Written(store[id].data, f.by)]
       /\ fin' = fin \ {f}
       /\ req' = [r \in Slots |->
                    IF r = f.by THEN [req[r] EXCEPT !.finPc = req[r].pc] ELSE req[r]]
       /\ UNCHANGED <<mw, project, modules, globalContext, now, ticks, driverVars, started, jar>>

RTick == Tick(MaxTicks, RequestTickSteps)

Common(r) ==
  \/ HCreateSession(r) \/ HSetItem(r) \/ HRemoveItem(r) \/ HClear(r)
  \/ HandlerReturn(r) \/ Deliver(r)

\* What the handlers of overlapping requests do: they write to the session
\* they arrived with (no session is created, so createAppHandler's
\* injectSessionCookieIfNeeded has nothing to do).
Overlapping(r) ==
  \/ HSetItemBegin(r) \/ HSetItemEnd(r) \/ HRemoveItem(r)
  \/ HandlerReturn(r) \/ Deliver(r)

\* ------------------------------------------------ part_001: onRequest
\* The end of the before phase, with inMemoryEntry = e.
BeforeP1(q, e) ==
  LET sync == q.sid # NoId /\ IsDirty(e) /\ q.cookie = NoCookie
      seed == q.sid # NoId /\ ~sync /\ e = NoEntry /\ q.cookie # NoCookie
  IN /\ req' = [req EXCEPT ![q.slot] =
                  [q.rec EXCEPT !.pc = "handler", !.sync = sync]]
     /\ sessionStore' =
          IF seed THEN [sessionStore EXCEPT ![q.sid] = Entry(q.cookie, FALSE, now)]
          ELSE sessionStore

StartP1(r) ==
  /\ P1Installed
  /\ FreeSlot(r)
  /\ \E sid \in ReqIds \cup {NoId} : \E c \in RequestCookies(sid) :
       LET a == Arrive(r, sid, c)
       IN IF sid # NoId /\ sessionStore[sid] = NoEntry /\ c = NoCookie
          THEN /\ req' = [req EXCEPT ![r] = [a EXCEPT !.pc = "bwait"]]
               /\ UNCHANGED sessionStore
          ELSE BeforeP1([slot |-> r, rec |-> a, sid |-> sid, cookie |-> c],
                        IF sid = NoId THEN NoEntry ELSE sessionStore[sid])
  /\ started' = started + 1
  /\ lastWrite' = MarkArrival(lastWrite, req'[r].sid)
  /\ UNCHANGED <<mw, project, modules, globalContext, now, ticks, driverVars, fin, jar>>

BEFORE_POLLS == 5

\* Variant: the loop bound is off by one.
BeforePollP1_OffByOne(r) ==
  /\ P1Installed
  /\ req[r].pc = "bwait"
  /\ LET e == sessionStore[req[r].sid]
         i == req[r].i + 1
     IN IF i < BEFORE_POLLS + 1 /\ e = NoEntry
        THEN /\ req' = [req EXCEPT ![r].i = i]
             /\ UNCHANGED sessionStore
        ELSE BeforeP1([slot |-> r, rec |-> [req[r] EXCEPT !.i = i],
                       sid |-> req[r].sid, cookie |-> req[r].cookie], e)
  /\ UNCHANGED <<mw, project, modules, globalContext, now, ticks, driverVars, fin, started, jar, lastWrite>>

\* One turn of the before phase's wait: setTimeout(10), then read the store.
BeforePollP1(r) ==
  /\ P1Installed
  /\ req[r].pc = "bwait"
  /\ LET e == sessionStore[req[r].sid]
         i == req[r].i + 1
     IN IF i < BEFORE_POLLS /\ e = NoEntry
        THEN /\ req' = [req EXCEPT ![r].i = i]
             /\ UNCHANGED sessionStore
        ELSE BeforeP1([slot |-> r, rec |-> [req[r] EXCEPT !.i = i],
                       sid |-> req[r].sid, cookie |-> req[r].cookie], e)
  /\ UNCHANGED <<mw, project, modules, globalContext, now, ticks, driverVars, fin, started, jar, lastWrite>>

\* Variant: the record is deleted once its cookie has been written, as the
\* first onRequest of middleware.ts does.
AfterP1Effect_DeletesRecord(q, store, t) ==
  LET id == CurSid(q)
      entry == IF id = NoId THEN NoEntry ELSE store[id]
      shouldWrite == IsDirty(entry) \/ (q.sync /\ q.sid = id)
  IN IF id # NoId /\ shouldWrite /\ entry # NoEntry
     THEN IF HasData(entry)
          THEN [emit |-> <<SetCookie(entry.data)>>,
                store |-> [store EXCEPT ![id] = NoEntry]]
          ELSE [emit |-> <<DeleteCookie>>,
                store |-> [store EXCEPT ![id] = NoEntry]]
     ELSE [emit |-> << >>, store |-> store]

\* Variant: a record without data is left alone, as the second onRequest of
\* middleware.ts does.
AfterP1Effect_IgnoresTombstone(q, store, t) ==
  LET id == CurSid(q)
      entry == IF id = NoId THEN NoEntry ELSE store[id]
      shouldWrite == IsDirty(entry) \/ (q.sync /\ q.sid = id)
  IN IF id # NoId /\ shouldWrite /\ HasData(entry)
     THEN [emit |-> <<SetCookie(entry.data)>>,
           store |-> [store EXCEPT ![id] = Entry(entry.data, FALSE, t)]]
     ELSE [emit |-> << >>, store |-> store]

\* Variant: the cookie is written from the record seen on arrival, and the
\* record found after next() is marked clean.
AfterP1Effect_EmitsArrivalRecord(q, store, t) ==
  LET id == CurSid(q)
      entry == IF id = NoId THEN NoEntry ELSE store[id]
      shouldWrite == IsDirty(entry) \/ (q.sync /\ q.sid = id)
      seen == IF q.owed \in {NoCookie, Empty} THEN entry.data ELSE q.owed
  IN IF id # NoId /\ shouldWrite /\ entry # NoEntry
     THEN IF HasData(entry)
          THEN [emit |-> <<SetCookie(seen)>>,
                store |-> [store EXCEPT ![id] = Entry(entry.data, FALSE, t)]]
          ELSE [emit |-> <<DeleteCookie>>,
                store |-> [store EXCEPT ![id] = NoEntry]]
     ELSE [emit |-> << >>, store |-> store]

\* Variant: without an identifier, the after phase flushes a dirty record
\* it finds in the store.
AfterP1Effect_FlushesWithoutId(q, store, t) ==
  LET id == IF CurSid(q) # NoId THEN CurSid(q)
            ELSE IF \E i \in Ids : IsDirty(store[i])
                 THEN CHOOSE i \in Ids : IsDirty(store[i]) ELSE NoId
      entry == IF id = NoId THEN NoEntry ELSE store[id]
      shouldWrite == IsDirty(entry) \/ (q.sync /\ q.sid = id)
  IN IF id # NoId /\ shouldWrite /\ entry # NoEntry
     THEN IF HasData(entry)
          THEN [emit |-> <<SetCookie(entry.data)>>,
                store |-> [store EXCEPT ![id] = Entry(entry.data, FALSE, t)]]
          ELSE [emit |-> <<DeleteCookie>>,
                store |-> [store EXCEPT ![id] = NoEntry]]
     ELSE [emit |-> << >>, store |-> store]

\* The after phase: what it emits and what it leaves in the store.
AfterP1Effect(q, store, t) ==
  LET id == CurSid(q)
      entry == IF id = NoId THEN NoEntry ELSE store[id]
      shouldWrite == IsDirty(entry) \/ (q.sync /\ q.sid = id)
  IN IF id # NoId /\ shouldWrite /\ entry # NoEntry
     THEN IF HasData(entry)
          THEN [emit |-> <<SetCookie(entry.data)>>,
                store |-> [store EXCEPT ![id] = Entry(entry.data, FALSE, t)]]
          ELSE [emit |-> <<DeleteCookie>>,
                store |-> [store EXCEPT ![id] = NoEntry]]
     ELSE [emit |-> << >>, store |-> store]

\* The client's cookie after the response's Set-Cookie effects.
JarAfter(j, id, emit) ==
  IF emit = << >> \/ id = NoId THEN j
  ELSE [j EXCEPT ![id] = IF emit[Len(emit)].op = "set"
                         THEN emit[Len(emit)].data ELSE NoCookie]

AfterP1(r) ==
  /\ P1Installed
  /\ req[r].pc = "after"
  /\ LET eff == AfterP1Effect(req[r], sessionStore, now)
     IN /\ sessionStore' = eff.store
        /\ req' = [req EXCEPT ![r].pc = "done", ![r].hdr = @ \o eff.emit]
        /\ jar' = JarAfter(jar, CurSid(req[r]), eff.emit)
        /\ lastWrite' = MarkDelivered(lastWrite, CurSid(req[r]), eff.emit)
  /\ UNCHANGED <<mw, project, modules, globalContext, now, ticks, driverVars, fin, started>>

InitP1 == InitRequests("P1")

NextP1 ==
  \/ \E r \in Slots : Common(r) \/ StartP1(r) \/ BeforePollP1(r) \/ AfterP1(r)
  \/ FinalizerRun
  \/ RTick

SpecP1 == InitP1 /\ [][NextP1]_vars

\* The same onRequest with requests in flight together.
InitP1c == InitRequests("P1c")

NextP1c ==
  \/ \E r \in Slots :
       Overlapping(r) \/ StartP1(r) \/ BeforePollP1(r) \/ AfterP1(r)
  \/ FinalizerRun

SpecP1c == InitP1c /\ [][NextP1c]_vars

\* ---------------------------------- middleware.ts (first onRequest)
\* Its records carry no timestamp (undefined, written -1 here).
NoTimestamp == -1

\* The before phase: the request's cookie is put into the store whenever the
\* request has a session id and the cookie.
BeforeV1(store, sid, c) ==
  IF sid # NoId /\ c # NoCookie
  THEN [store EXCEPT ![sid] = Entry(c, FALSE, NoTimestamp)]
  ELSE store

StartV1(r) ==
  /\ mw = "V1"
  /\ FreeSlot(r)
  /\ \E sid \in ReqIds \cup {NoId} : \E c \in RequestCookies(sid) :
       /\ req' = [req EXCEPT ![r] = [Arrive(r, sid, c) EXCEPT !.pc = "handler"]]
       /\ sessionStore' = BeforeV1(sessionStore, sid, c)
  /\ started' = started + 1
  /\ lastWrite' = MarkArrival(lastWrite, req'[r].sid)
  /\ UNCHANGED <<mw, project, modules, globalContext, now, ticks, driverVars, fin, jar>>

\* The after phase: a dirty record is written to (or deleted from) the
\* cookies, and the record of the session is deleted in any case.
AfterV1Effect(q, store) ==
  LET id == CurSid(q)
      entry == IF id = NoId THEN NoEntry ELSE store[id]
  IN IF id = NoId THEN [emit |-> << >>, store |-> store]
     ELSE [emit |-> IF ~IsDirty(entry) THEN << >>
                    ELSE IF HasData(entry) THEN <<SetCookie(entry.data)>>
                    ELSE <<DeleteCookie>>,
           store |-> [store EXCEPT ![id] = NoEntry]]

AfterV1(r) ==
  /\ mw = "V1"
  /\ req[r].pc = "after"
  /\ LET eff == AfterV1Effect(req[r], sessionStore)
     IN /\ sessionStore' = eff.store
        /\ req' = [req EXCEPT ![r].pc = "done", ![r].hdr = @ \o eff.emit]
        /\ jar' = JarAfter(jar, CurSid(req[r]), eff.emit)
        /\ lastWrite' = MarkDelivered(lastWrite, CurSid(req[r]), eff.emit)
  /\ UNCHANGED <<mw, project, modules, globalContext, now, ticks, driverVars, fin, started>>

InitV1 == InitRequests("V1")

NextV1 ==
  \/ \E r \in Slots : Common(r) \/ StartV1(r) \/ AfterV1(r)
  \/ FinalizerRun
  \/ RTick

SpecV1 == InitV1 /\ [][NextV1]_vars

\* ------------------------------- middleware.ts (second onRequest) and
\* ------------------------------- createAppHandler's injectSessionCookieIfNeeded
StartMw(r) ==
  /\ MwInstalled
  /\ FreeSlot(r)
  /\ \E sid \in ReqIds \cup {NoId} : \E c \in RequestCookies(sid) :
       LET e == IF sid = NoId THEN NoEntry ELSE sessionStore[sid]
           sync == sid # NoId /\ IsDirty(e) /\ c = NoCookie
           seed == sid # NoId /\ ~sync /\ e = NoEntry /\ c # NoCookie
           seeded == IF seed THEN [sessionStore EXCEPT ![sid] = Entry(c, FALSE, now)]
                     ELSE sessionStore
           driverContext == started + 1
       IN /\ req' = run([req EXCEPT ![r] =
                           [Arrive(r, sid, c) EXCEPT !.pc = "handler", !.sync = sync,
                                                     !.driverContext = driverContext]],
                        r, driverContext)
          /\ sessionStore' = cleanupSessionStore(seeded, now)
          /\ setDriverContext(driverContext)
  /\ started' = started + 1
  /\ lastWrite' = MarkArrival(lastWrite, req'[r].sid)
  /\ UNCHANGED <<mw, project, modules, now, ticks, driverVars, fin, jar>>

\* Variant: no deferred sync.
AfterMwEffect_NoDeferredSync(q, store) ==
  [emit |-> << >>, store |-> store]

\* Variant: the record is marked clean whether or not its payload was sent.
AfterMwEffect_CleansUnsent(q, store) ==
  LET entry == IF q.sid = NoId THEN NoEntry ELSE store[q.sid]
  IN IF q.sync /\ q.sid # NoId /\ entry # NoEntry
     THEN [emit |-> IF HasData(entry) THEN <<SetCookie(entry.data)>> ELSE << >>,
           store |-> [store EXCEPT ![q.sid] = [entry EXCEPT !.dirty = FALSE]]]
     ELSE [emit |-> << >>, store |-> store]

\* The deferred cookie sync after next().
AfterMwEffect(q, store) ==
  LET entry == IF q.sid = NoId THEN NoEntry ELSE store[q.sid]
  IN IF q.sync /\ q.sid # NoId /\ HasData(entry)
     THEN [emit |-> <<SetCookie(entry.data)>>,
           store |-> [store EXCEPT ![q.sid] = [entry EXCEPT !.dirty = FALSE]]]
     ELSE [emit |-> << >>, store |-> store]

\* onRequest returns; injectSessionCookieIfNeeded looks for an astro-session
\* Set-Cookie on the response and, finding one, waits for setImmediate.
AfterMw(r) ==
  /\ MwInstalled
  /\ req[r].pc = "after"
  /\ LET eff == AfterMwEffect(req[r], sessionStore)
     IN /\ sessionStore' = eff.store
        /\ req' = [req EXCEPT ![r].pc = IF req[r].newSid = NoId THEN "done" ELSE "itick",
                              ![r].hdr = @ \o eff.emit]
        /\ jar' = JarAfter(jar, req[r].sid, eff.emit)
        /\ lastWrite' = MarkDelivered(lastWrite, req[r].sid, eff.emit)
  /\ UNCHANGED <<mw, project, modules, globalContext, now, ticks, driverVars, fin, started>>

\* Variant: the session is looked up under the request's astro-session cookie.
injectEffect_ArrivalSession(q, store, t) ==
  LET entry == IF q.sid = NoId THEN NoEntry ELSE store[q.sid]
  IN IF ~IsDirty(entry) \/ ~HasData(entry)
     THEN [emit |-> << >>, store |-> store]
     ELSE [emit |-> <<SetCookie(entry.data)>>,
           store |-> [store EXCEPT ![q.sid] = Entry(entry.data, FALSE, t)]]

\* Variant: the fallback sends a dirty record it finds in the store, not the
\* one of the session the response has set.
injectEffect_AnyDirtyRecord(q, store, t) ==
  LET id == IF \E i \in Ids : IsDirty(store[i]) /\ HasData(store[i])
            THEN CHOOSE i \in Ids : IsDirty(store[i]) /\ HasData(store[i])
            ELSE q.newSid
      entry == store[id]
  IN IF ~IsDirty(entry) \/ ~HasData(entry)
     THEN [emit |-> << >>, store |-> store]
     ELSE [emit |-> <<SetCookie(entry.data)>>,
           store |-> [store EXCEPT ![id] = Entry(entry.data, FALSE, t)]]

\* Variant: the record's payload is attached whether or not it is dirty.
injectEffect_IgnoresDirty(q, store, t) ==
  LET entry == store[q.newSid]
  IN IF ~HasData(entry)
     THEN [emit |-> << >>, store |-> store]
     ELSE [emit |-> <<SetCookie(entry.data)>>,
           store |-> [store EXCEPT ![q.newSid] = Entry(entry.data, FALSE, t)]]

injectEffect(q, store, t) ==
  LET entry == store[q.newSid]
  IN IF ~IsDirty(entry) \/ ~HasData(entry)
     THEN [emit |-> << >>, store |-> store]
     ELSE [emit |-> <<SetCookie(entry.data)>>,
           store |-> [store EXCEPT ![q.newSid] = Entry(entry.data, FALSE, t)]]

injectSessionCookieIfNeeded(r) ==
  /\ MwInstalled
  /\ req[r].pc = "itick"
  /\ LET eff == injectEffect(req[r], sessionStore, now)
     IN /\ sessionStore' = eff.store
        /\ req' = [req EXCEPT ![r].pc = "done", ![r].hdr = @ \o eff.emit]
        /\ jar' = JarAfter(jar, req[r].newSid, eff.emit)
        /\ lastWrite' = MarkDelivered(lastWrite, req[r].newSid, eff.emit)
  /\ UNCHANGED <<mw, project, modules, globalContext, now, ticks, driverVars, fin, started>>

InitMw == InitRequests("Mw")

NextMw ==
  \/ \E r \in Slots :
       Common(r) \/ StartMw(r) \/ AfterMw(r) \/ injectSessionCookieIfNeeded(r)
  \/ FinalizerRun
  \/ RTick

SpecMw == InitMw /\ [][NextMw]_vars

\* The same onRequest with handlers that also read their session.
NextMwRead == NextMw \/ \E r \in Slots : HGetItem(r)

SpecMwRead == InitMw /\ [][NextMwRead]_vars

\* The same onRequest serving clients of two sessions, followed by
\* injectSessionCookieIfNeeded.
InitMwi == InitRequests("Mwi")

NextMwi ==
  \/ \E r \in Slots :
       \/ StartMw(r) \/ HCreateSession(r) \/ HSetItem(r) \/ HGetItem(r)
       \/ HandlerReturn(r) \/ AfterMw(r) \/ injectSessionCookieIfNeeded(r)
       \/ Deliver(r)
  \/ FinalizerRun

SpecMwi == InitMwi /\ [][NextMwi]_vars

\* The same onRequest with handlers that write, destroy and read the session
\* their request arrived with.
InitMwd == InitRequests("Mwd")

NextMwd ==
  \/ \E r \in Slots :
       \/ StartMw(r) \/ HSetItem(r) \/ HRemoveItem(r) \/ HGetItem(r)
       \/ HandlerReturn(r) \/ AfterMw(r) \/ Deliver(r)
  \/ FinalizerRun
  \/ RTick

SpecMwd == InitMwd /\ [][NextMwd]_vars

\* The same onRequest with requests in flight together.
InitMwc == InitRequests("Mwc")

NextMwc ==
  \/ \E r \in Slots :
       Overlapping(r) \/ StartMw(r) \/ AfterMw(r)
  \/ FinalizerRun

SpecMwc == InitMwc /\ [][NextMwc]_vars

\* ------------------------------------------------ part_002: onRequest
StartP2(r) ==
  /\ P2Installed
  /\ FreeSlot(r)
  /\ \E sid \in ReqIds \cup {NoId} : \E c \in RequestCookies(sid) :
       LET seed == sid # NoId /\ sessionStore[sid] = NoEntry /\ c # NoCookie
           seeded == IF seed THEN [sessionStore EXCEPT ![sid] = Entry(c, FALSE, now)]
                     ELSE sessionStore
           driverContext == started + 1
       IN /\ req' = run([req EXCEPT ![r] =
                           [Arrive(r, sid, c) EXCEPT !.pc = "handler",
                                                     !.driverContext = driverContext]],
                        r, driverContext)
          /\ sessionStore' = cleanupSessionStore(seeded, now)
          /\ setDriverContext(driverContext)
  /\ started' = started + 1
  /\ lastWrite' = MarkArrival(lastWrite, req'[r].sid)
  /\ UNCHANGED <<mw, project, modules, now, ticks, driverVars, fin, jar>>

IsRedirectP2(st) == st = 302 \/ st = 301

AfterP2(r) ==
  /\ P2Installed
  /\ req[r].pc = "after"
  /\ req' = [req EXCEPT ![r].pc =
               IF CurSid(req[r]) # NoId /\ IsRedirectP2(req[r].status)
               THEN "tick" ELSE "done"]
  /\ UNCHANGED <<mw, project, modules, globalContext, sessionStore, now, ticks, driverVars, fin, started, jar, lastWrite>>

AFTER_POLLS == 20

\* The end of the redirect wait, with the entry read last.
InjectP2(r, q, entry) ==
  LET emit == IF IsDirty(entry) /\ HasData(entry)
              THEN <<SetCookie(entry.data)>> ELSE << >>
  IN /\ req' = [req EXCEPT ![r] = [q EXCEPT !.pc = "done", !.hdr = @ \o emit]]
     /\ jar' = JarAfter(jar, CurSid(q), emit)
     /\ lastWrite' = MarkDelivered(lastWrite, CurSid(q), emit)

\* setImmediate has fired: read the store, and start polling if it is not dirty.
ImmediateP2(r) ==
  /\ P2Installed
  /\ req[r].pc = "tick"
  /\ LET entry == sessionStore[CurSid(req[r])]
     IN IF ~IsDirty(entry) /\ 0 < AFTER_POLLS
        THEN /\ req' = [req EXCEPT ![r].pc = "poll", ![r].i = 0]
             /\ UNCHANGED <<jar, lastWrite>>
        ELSE InjectP2(r, req[r], entry)
  /\ UNCHANGED <<mw, project, modules, globalContext, sessionStore, now, ticks, driverVars, fin, started>>

\* Variant: the read of the last turn is not used.
PollP2_DropsLastRead(r) ==
  /\ P2Installed
  /\ req[r].pc = "poll"
  /\ LET entry == sessionStore[CurSid(req[r])]
         i == req[r].i + 1
     IN IF i < AFTER_POLLS /\ ~IsDirty(entry)
        THEN /\ req' = [req EXCEPT ![r].i = i]
             /\ UNCHANGED <<jar, lastWrite>>
        ELSE InjectP2(r, [req[r] EXCEPT !.i = i],
                      IF i < AFTER_POLLS THEN entry ELSE NoEntry)
  /\ UNCHANGED <<mw, project, modules, globalContext, sessionStore, now, ticks, driverVars, fin, started>>

\* One turn of the poll: setTimeout(5), then read the store.
PollP2(r) ==
  /\ P2Installed
  /\ req[r].pc = "poll"
  /\ LET entry == sessionStore[CurSid(req[r])]
         i == req[r].i + 1
     IN IF i < AFTER_POLLS /\ ~IsDirty(entry)
        THEN /\ req' = [req EXCEPT ![r].i = i]
             /\ UNCHANGED <<jar, lastWrite>>
        ELSE InjectP2(r, [req[r] EXCEPT !.i = i], entry)
  /\ UNCHANGED <<mw, project, modules, globalContext, sessionStore, now, ticks, driverVars, fin, started>>

InitP2 == InitRequests("P2")

NextP2 ==
  \/ \E r \in Slots :
       Common(r) \/ StartP2(r) \/ AfterP2(r) \/ ImmediateP2(r) \/ PollP2(r)
  \/ FinalizerRun
  \/ RTick

SpecP2 == InitP2 /\ [][NextP2]_vars

\* The same onRequest with handlers that redirect with every 3xx status.
InitP2r == InitRequests("P2r")
SpecP2r == InitP2r /\ [][NextP2]_vars

\* ------------------------------------------ the three onRequest together
InitAll == \E m \in {"P1", "Mw", "P2"} : InitRequests(m)

NextAll ==
  \/ \E r \in Slots :
       \/ Common(r)
       \/ StartP1(r) \/ BeforePollP1(r) \/ AfterP1(r)
       \/ StartMw(r) \/ AfterMw(r) \/ injectSessionCookieIfNeeded(r)
       \/ StartP2(r) \/ AfterP2(r) \/ ImmediateP2(r) \/ PollP2(r)
  \/ FinalizerRun
  \/ RTick

SpecAll == InitAll /\ [][NextAll]_vars

\* ------------------------------------------ the two onRequest that wait
InitWait == \E m \in {"P1", "P2"} : InitRequests(m)

NextWait ==
  \/ \E r \in Slots :
       \/ Common(r)
       \/ StartP1(r) \/ BeforePollP1(r) \/ AfterP1(r)
       \/ StartP2(r) \/ AfterP2(r) \/ ImmediateP2(r) \/ PollP2(r)
  \/ FinalizerRun
  \/ RTick

\* A step of onRequest outside the handler: its timers fire and its
\* continuations run (the event loop is fair to them).
HookStep ==
  \E r \in Slots :
    \/ BeforePollP1(r) \/ AfterP1(r)
    \/ AfterP2(r) \/ ImmediateP2(r) \/ PollP2(r)

FairSpecWait == InitWait /\ [][NextWait]_vars /\ WF_vars(HookStep)

C2_TombstoneFlushed ==
  [][\A r \in Slots :
       LET id == CurSid(req[r])
       IN (/\ req[r].pc = "after" /\ req'[r].pc = "done"
           /\ id # NoId
           /\ IsDirty(sessionStore[id])
           /\ sessionStore[id].data = Empty)
          => /\ req'[r].hdr = req[r].hdr \o <<DeleteCookie>>
             /\ sessionStore'[id] = NoEntry]_vars

\* A response deletes the cookie after its handler's removeItem.
C2_Witness ==
  \E r \in Slots :
    LET id == CurSid(req[r])
    IN /\ req[r].pc = "done"
       /\ id # NoId
       /\ lastWrite[id].kind = "write" /\ lastWrite[id].by = r
       /\ lastWrite[id].data = Empty
       /\ req[r].hdr = <<DeleteCookie>>
       /\ sessionStore[id] = NoEntry

\* ------------------------------------------------------------------ C3
\* C3: on a 302 response, when the finalizer's setItem ran after the handler
\* returned and before the redirect wait (the setImmediate yield and up to 20
\* polls) took its last reading, the response gets a Set-Cookie carrying the
\* payload that setItem stored.
C3_RedirectCarriesCookie ==
  [][\A r \in Slots :
       LET id == CurSid(req[r])
       IN (/\ req[r].pc \in {"tick", "poll"} /\ req'[r].pc = "done"
           /\ req[r].status = 302
           /\ req[r].finPc \in {"after", "tick", "poll"}
           /\ lastWrite[id].kind = "write"
           /\ lastWrite[id].by = r
           /\ lastWrite[id].data # Empty)
          => req'[r].hdr = req[r].hdr \o <<SetCookie(lastWrite[id].data)>>]_vars

\* A 302 response carries a payload that became visible during the polls.
C3_Witness ==
  \E r \in Slots :
    LET id == CurSid(req[r])
    IN /\ req[r].pc = "done" /\ req[r].status = 302
       /\ req[r].finPc = "poll"
       /\ req[r].i > 1
       /\ lastWrite[id].kind = "write" /\ lastWrite[id].by = r
       /\ req[r].hdr = <<SetCookie(lastWrite[id].data)>>

\* ------------------------------------------------------------------ C4
\* The request in slot r starts: its before phase has run.
C4_DetectsDirtyRecord ==
  \A r \in Slots :
    (/\ req[r].pc = "idle" /\ req'[r].pc = "handler"
     /\ req'[r].sid # NoId
     /\ req'[r].cookie = NoCookie
     /\ IsDirty(sessionStore[req'[r].sid]))
    => req'[r].sync

\* A setItem that ran when its request's hooks had finished is on no
\* Set-Cookie of that request's response.
C4_LateWriteNotOnResponse ==
  \A r \in Slots :
    (/\ req[r].pc = "done" /\ req[r].finPc = "done"
     /\ CurSid(req[r]) # NoId
     /\ lastWrite[CurSid(req[r])].kind = "write"
     /\ lastWrite[CurSid(req[r])].by = r)
    => ~lastWrite[CurSid(req[r])].delivered

\* The after phase of a request that found, on arrival, a dirty record with a
\* payload that has not been overwritten since.
C4_AfterOfSyncRequest(r) ==
  /\ req[r].pc = "after" /\ req'[r].pc # "after"
  /\ req[r].sync
  /\ req[r].owed \notin {NoCookie, Empty}
  /\ lastWrite[req[r].sid].kind = "write"
  /\ lastWrite[req[r].sid].data = req[r].owed

C5_DeliveredByNextRequest ==
  \A r \in Slots :
    (/\ req[r].pc = "done"
     /\ req[r].owes
     /\ lastWrite[req[r].sid].kind = "write"
     /\ lastWrite[req[r].sid].nexted)
    => lastWrite[req[r].sid].delivered

\* ------------------------------------------------------------------ C6
\* The polls taken stay within the budgets: 5 before the handler, 20 after it.
C6_PollsBounded ==
  \A r \in Slots :
    /\ req[r].i <= 20
    /\ mw = "P1" => req[r].i <= 5
    /\ req[r].pc = "bwait" => req[r].i < 5
    /\ req[r].pc = "poll" => req[r].i < 20

\* A turn of a wait counts one poll, and the turn that reads a record (before
\* the handler) or a dirty record (after it) ends the wait; a hook that has
\* returned does not wait again.
C6_PollStep ==
  \A r \in Slots :
    LET turn == req'[r].pc # req[r].pc \/ req'[r].i # req[r].i
    IN /\ req[r].pc \in {"bwait", "poll"} /\ turn
            => req'[r].i = req[r].i + 1
       /\ req[r].pc = "bwait" /\ turn
            => req'[r].pc \in {"bwait", "handler"}
       /\ req[r].pc = "bwait" /\ turn /\ sessionStore[req[r].sid] # NoEntry
            => req'[r].pc = "handler"
       /\ req[r].pc = "after" /\ turn => req'[r].pc \in {"tick", "done"}
       /\ req[r].pc = "tick" /\ turn => req'[r].pc \in {"poll", "done"}
       /\ req[r].pc = "poll" /\ turn => req'[r].pc \in {"poll", "done"}
       /\ req[r].pc \in {"tick", "poll"} /\ turn
          /\ IsDirty(sessionStore[CurSid(req[r])])
            => req'[r].pc = "done"
       /\ req[r].pc = "done" /\ turn => req'[r].pc = "idle"

\* A request is inside a phase of the hook (not in its handler, not answered).
C6_InHook == \E r \in Slots : req[r].pc \in {"bwait", "after", "tick", "poll"}

\* C6: the waits of the hook are bounded (at most 5 polls before the handler;
\* one setImmediate yield and at most 20 polls after it, ending at the first
\* poll that sees a dirty record), the after phase does not wait again once
\* its budget is spent, and each phase of the hook returns in every
\* execution, whether or not a setItem ever occurs.
C6_WaitsTerminate ==
  /\ []C6_PollsBounded
  /\ [][C6_PollStep]_vars
  /\ C6_InHook ~> ~C6_InHook

\* A redirect was answered after all 20 polls without any write, and a request
\* reached its handler after all 5 polls.
C6_Witness ==
  \E r \in Slots :
    \/ /\ mw = "P2" /\ req[r].pc = "done" /\ req[r].i = 20
       /\ req[r].hdr = << >> /\ lastWrite["s1"].kind = "none"
    \/ /\ mw = "P1" /\ req[r].pc = "handler" /\ req[r].i = 5
       /\ sessionStore[req[r].sid] = NoEntry

\* ------------------------------------------------------------------ C7
\* A record with dirty = false holds the payload of the client's cookie: the
\* one it was seeded from or the one last sent in a Set-Cookie.
C7_CleanIsConfirmed ==
  \A id \in Ids :
    (sessionStore[id] # NoEntry /\ ~sessionStore[id].dirty)
    => sessionStore[id].data = jar[id]

\* The record of id is clean after the step and was not that clean record before.
C7_BecomesClean(id) ==
  /\ sessionStore'[id] # NoEntry
  /\ ~sessionStore'[id].dirty
  /\ \/ sessionStore[id] = NoEntry
     \/ sessionStore[id].dirty
     \/ sessionStore[id].data # sessionStore'[id].data

\* The step sends the payload in a Set-Cookie of a response of the session, or
\* is the before phase of a request that carries the payload as its cookie.
C7_SentOrSeeded(id, data) ==
  \E r \in Slots :
    \/ /\ req'[r].hdr = req[r].hdr \o <<SetCookie(data)>>
       /\ CurSid(req[r]) = id
    \/ /\ req[r].pc \in {"idle", "bwait"}
       /\ req'[r].pc = "handler"
       /\ req'[r].sid = id
       /\ req'[r].cookie = data
       /\ sessionStore[id] = NoEntry

\* C7: a record with dirty = false holds exactly the payload last confirmed
\* written to, or seeded from, the cookie, and no step makes a record clean
\* without sending that record's payload in a Set-Cookie in the same step
\* (or seeding it from the request's cookie).
C7_CleanMeansWritten ==
  /\ []C7_CleanIsConfirmed
  /\ [][\A id \in Ids :
          C7_BecomesClean(id) => C7_SentOrSeeded(id, sessionStore'[id].data)]_vars

\* A record made clean by the deferred sync, holding what the client now holds.
C7_Witness ==
  \E r \in Slots :
    /\ mw = "Mw" /\ req[r].pc = "done" /\ req[r].sync
    /\ req[r].hdr # << >>
    /\ sessionStore[req[r].sid] # NoEntry
    /\ ~sessionStore[req[r].sid].dirty
    /\ sessionStore[req[r].sid].data = jar[req[r].sid]
    /\ jar[req[r].sid] # OldCookie

\* ------------------------------------------------------------------ C8
\* The password the claim says is resolved, written out from the claim.
C8_Expected(optPw, envPw) ==
  IF optPw # "" THEN optPw ELSE IF envPw # "" THEN envPw ELSE DerivedPassword

IsCreateStep == calls'.creates # calls.creates

\* C8: createCookieSessionDriver throws exactly when the password it resolves
\* (the option, else the environment variable, else the derived one) is
\* shorter than 32 characters; a supplied too-short password is never replaced
\* by a derived or other one; and a failed construction leaves the
\* configuration returned by getDriverConfig as it was.
C8_FailsFast ==
  [][IsCreateStep =>
       LET pw == C8_Expected(last'.optPw, last'.envPw)
       IN /\ (last'.result = "throw") <=> (Len(pw) < 32)
          /\ last'.result = "throw" =>
               /\ resolvedConfig' = resolvedConfig
               /\ driver' = driver
          /\ last'.result = "ok" =>
               /\ resolvedConfig'.password = pw
               /\ driver'.password = pw]_vars

\* A 31-character password is refused while an earlier configuration stands.
C8_Witness ==
  /\ last.op = "create"
  /\ last.result = "throw"
  /\ last.optPw = Pw31
  /\ resolvedConfig # NoConfig

\* ------------------------------------------------------------------ C9
IsGetItemStep == last'.op = "getItem" /\ UNCHANGED <<calls, ticks>>

\* The record's payload is no seal this driver can open at this time.
C9_BadData(e, cfg, t) ==
  \/ e = NoEntry
  \/ e.data = Empty
  \/ e.data = Garbage
  \/ e.data.kind = "sealed" /\ e.data.pw # cfg.password
  \/ e.data.kind = "sealed" /\ Expired(e.data, t)

C10_CodecFailurePropagates ==
  /\ last.op = "setItem" /\ last.codecError => last.result = "throw"
  /\ last.op = "getItem" /\ last.codecError /\ sessionStore[last.id] # NoEntry
       => last.result = "throw"
\* ----------------------------------------------------------------- C11
\* C11: a getItem(id) that follows a completed setItem(id, v) of the same
\* driver, with no other driver call in between and no more than ttl seconds
\* later, returns v.
C11_RoundTrip ==
  [][(/\ last.op = "setItem" /\ last.result = "ok"
      /\ IsGetItemStep
      /\ last'.id = last.id
      /\ ~last'.codecError
      /\ now - sessionStore[last.id].timestamp <= driver.ttl * 1000)
     => last'.result = last.val]_vars

\* A value read back some time after it was written.
C11_Witness ==
  /\ last.op = "getItem"
  /\ last.result \in Values
  /\ sessionStore[last.id] # NoEntry
  /\ sessionStore[last.id].dirty
  /\ now > sessionStore[last.id].timestamp

\* ----------------------------------------------------------------- C12
\* C12: once more than ttl seconds have passed since a payload was sealed,
\* getItem returns null for it although the record is still in the store.
C12_ExpiryEnforcedOnRead ==
  [][(/\ IsGetItemStep
      /\ sessionStore[last'.id] # NoEntry
      /\ sessionStore[last'.id].data.kind = "sealed"
      /\ now > sessionStore[last'.id].data.exp)
     => last'.result = Null]_vars

\* C13: when a request's cleanupSessionStore has run at time now, the store
\* holds no record older than SESSION_STORE_TTL_MS, be it clean, dirty or a
\* tombstone.
C13_NoStaleRecordAfterCleanup ==
  [][started' = started + 1 =>
       \A id \in Ids :
         sessionStore'[id] # NoEntry =>
           now' - sessionStore'[id].timestamp <= SESSION_STORE_TTL_MS]_vars

\* A request found a dirty record (payload or tombstone) for its session on
\* arrival, and the sweep of that arrival removed it.
C13_Witness ==
  \E r \in Slots :
    /\ req[r].pc = "handler" /\ req[r].ops = 0
    /\ req[r].owed # NoCookie
    /\ sessionStore[req[r].sid] = NoEntry
    /\ now > SESSION_STORE_TTL_MS

\* C14: a request's context is handed out only while that request is in
\* flight: the process-wide slot read by getDriverContext and the store of
\* every call tree hold the context of a request that has not yet been
\* answered, or none.
C14_ContextEndsWithRequest ==
  /\ getDriverContext # NoContext =>
       \E r \in Slots : req[r].pc # "idle" /\ req[r].driverContext = getDriverContext
  /\ \A r \in Slots :
       req[r].alsStore # NoContext =>
         req[r].pc # "idle" /\ req[r].alsStore = req[r].driverContext

C16_RecordIsWhole(id) ==
  LET e == sessionStore[id]
  IN e # NoEntry =>
       IF e.dirty
       THEN lastWrite[id].kind = "write" /\ e.data = lastWrite[id].data
       ELSE e.data = jar[id]

\* C16: with requests of one session in flight together and each calling
\* setItem, the record is at every moment the write that completed last
\* (payload, dirty, timestamp), and no interleaving of the driver calls with
\* the before and after phases leaves a record mixed from two writes or a
\* clean record whose payload was not sent.
C16_LastCompletedWriteWins ==
  [][/\ \A id \in Ids : C16_RecordIsWhole(id)'
     /\ \A r \in Slots :
          req'[r].ops = req[r].ops + 1 =>
            LET id == CurSid(req[r])
            IN /\ sessionStore'[id] # NoEntry
               /\ sessionStore'[id].dirty
               /\ sessionStore'[id].timestamp = now
               /\ lastWrite'[id].by = r
               /\ req[r].sealing # Null =>
                    sessionStore'[id].data =
                      sealData(req[r].sealing, driver.password, driver.ttl, now)]_vars

\* Both requests wrote; the second has been answered with its cookie while
\* the first was still sealing, and the first write then completed.
C16_Witness ==
  /\ req[1].pc = "handler" /\ req[1].ops > 0
  /\ req[2].pc = "done" /\ req[2].ops > 0 /\ req[2].hdr # << >>
  /\ req[1].sid = "s1" /\ req[2].sid = "s1"
  /\ lastWrite["s1"].kind = "write" /\ lastWrite["s1"].by = 1
  /\ sessionStore["s1"] # NoEntry /\ sessionStore["s1"].dirty
  /\ sessionStore["s1"].data.kind = "sealed"
  /\ jar["s1"] # sessionStore["s1"].data

\* The value the latest setItem/removeItem on id left to be read.
C17_Latest(id) ==
  IF lastWrite[id].data = Empty THEN Null ELSE lastWrite[id].data.val

\* C17: with requests served one after the other, a getItem(id) returns the
\* value of the latest setItem(id, .) before it, and null when the latest
\* write was removeItem(id), in the request that wrote and in every later
\* one (no payload reaches its ttl here).
C17_ReadsLatestWrite ==
  [][(/\ last'.op = "getItem" /\ last' # last
      /\ lastWrite[last'.id].kind = "write")
     => last'.result = C17_Latest(last'.id)]_vars

\* C18: getKeys returns the empty sequence in every state, whatever records
\* the store holds, and leaves the store as it was.
C18_GetKeysEmpty ==
  [][(last'.op = "getKeys" /\ last.op # "getKeys")
     => /\ last'.result = << >>
        /\ sessionStore' = sessionStore]_vars

\* getKeys has answered while the store held a payload and a tombstone.
C18_Witness ==
  /\ last.op = "getKeys"
  /\ \E id \in Ids : sessionStore[id] # NoEntry /\ sessionStore[id].data.kind = "sealed"
  /\ \E id \in Ids : sessionStore[id] # NoEntry /\ sessionStore[id].data = Empty

\* The step is a completed setItem or removeItem of the driver.
C19_WriteStep ==
  /\ calls'.writes = calls.writes + 1
  /\ last'.op \in {"setItem", "removeItem"}
  /\ last'.result = "ok"

C20_OneStore ==
  [][last'.op = "write" =>
       \A inst \in ModuleInstances :
         modules'.sessionStore[inst] # Undefined =>
           /\ modules'.sessionStore[inst] = modules'.global
           /\ modules'.maps[modules'.sessionStore[inst]][last'.id] = last'.entry]_vars

\* Three instances are loaded and a payload has been written through the one
\* loaded last.
C20_Witness ==
  /\ \A inst \in ModuleInstances : modules.sessionStore[inst] # Undefined
  /\ last.op = "write" /\ last.inst = "duplicate"
  /\ last.entry # NoEntry /\ last.entry.data.kind = "sealed"
  /\ modules.maps[modules.sessionStore["package"]][last.id] = last.entry

C22_SetupStep == project'.setups = project.setups + 1

\* C22: the hook writes amplify.yml only when the project root has none; a
\* file that exists, generated earlier or written by the user, is left as it
\* is by every later run, whatever lock files the project has by then.
C22_WritesOnlyWhenAbsent ==
  [][C22_SetupStep =>
       /\ project.amplifyYml # Absent => project'.amplifyYml = project.amplifyYml
       /\ project'.amplifyYml # project.amplifyYml =>
            /\ project.amplifyYml = Absent
            /\ project'.amplifyYml =
                 getAmplifyYaml(detectPackageManager(project.entries))
       /\ project'.entries = project.entries]_vars

\* The hook has run a second time, successfully, on a project whose lock file
\* no longer matches the amplify.yml generated by the first run.
C22_Witness ==
  /\ project.setups = MaxSetups
  /\ last.op = "setup" /\ last.result = "ok" /\ ~last.created
  /\ project.amplifyYml.kind = "generated"
  /\ project.amplifyYml # getAmplifyYaml(detectPackageManager(project.entries))

\* The step ends the before phase of the request in slot r.
C23_BeforeEnds(r) ==
  /\ req[r].pc \in {"idle", "bwait"}
  /\ req'[r].pc = "handler"

\* C23: the before phase puts {cookie value, clean, now} into the store
\* exactly when the request has a session id and the cookie and the store has
\* no record of the id; a record that is there, clean or dirty, is not
\* replaced by the cookie's value (it stays as it is, or is swept as stale).
C23_SeedsOnlyColdStore ==
  [][\A r \in Slots :
       C23_BeforeEnds(r) =>
         LET sid == req'[r].sid
             c == req'[r].cookie
         IN sid # NoId =>
              /\ (sessionStore[sid] = NoEntry /\ c # NoCookie)
                   => sessionStore'[sid] = Entry(c, FALSE, now)
              /\ (sessionStore[sid] = NoEntry /\ c = NoCookie)
                   => sessionStore'[sid] = NoEntry
              /\ sessionStore[sid] # NoEntry
                   => sessionStore'[sid] \in {sessionStore[sid], NoEntry}]_vars

\* The step is the one that finishes the response of the request in slot r.
C24_ResponseDone(r) == req[r].pc # "done" /\ req'[r].pc = "done"

\* C24: no response carries a session-data cookie with an empty value, and a
\* dirty record with an empty payload found when a response is finished
\* gives a cookie deletion on that response and is removed from the store.
C24_TombstoneDeletesCookie ==
  [][\A r \in Slots :
       /\ \A k \in 1 .. Len(req'[r].hdr) : req'[r].hdr[k] # SetCookie(Empty)
       /\ C24_ResponseDone(r) =>
            LET id == CurSid(req[r])
            IN (id # NoId /\ IsDirty(sessionStore[id]) /\ sessionStore[id].data = Empty)
               => /\ \E k \in 1 .. Len(req'[r].hdr) : req'[r].hdr[k] = DeleteCookie
                  /\ sessionStore'[id] = NoEntry]_vars

\* C25: on every redirect response (301, 302, 303, 307, 308) of a request
\* with a session id and no dirty record yet, the after phase yields and
\* polls; and the response is finished with the session-data cookie when the
\* record is dirty by then.
C25_EveryRedirectWaits ==
  [][\A r \in Slots :
       LET id == CurSid(req[r])
       IN (/\ req[r].status \in RedirectStatuses
           /\ id # NoId)
          => /\ (req[r].pc = "after" /\ req'[r].pc # "after"
                 /\ ~IsDirty(sessionStore[id]))
                => req'[r].pc = "tick"
             /\ (C24_ResponseDone(r) /\ IsDirty(sessionStore[id])
                 /\ HasData(sessionStore[id]))
                => /\ req'[r].hdr # << >>
                   /\ req'[r].hdr[Len(req'[r].hdr)] = SetCookie(sessionStore[id].data)]_vars

C27_AfterRuns(r) == req[r].pc = "after" /\ req'[r].pc # "after"

C27_NoIdNoEffect ==
  [][\A r \in Slots :
       (C27_AfterRuns(r) /\ CurSid(req[r]) = NoId)
       => /\ req'[r].pc = "done"
          /\ req'[r].hdr = req[r].hdr
          /\ req'[r].status = req[r].status
          /\ sessionStore' = sessionStore
          /\ jar' = jar]_vars

C27_Witness ==
  \E r \in Slots :
    /\ req[r].pc = "done"
    /\ CurSid(req[r]) = NoId
    /\ req[r].hdr = << >>
    /\ \E id \in Ids : IsDirty(sessionStore[id])

\* C28: the before phase of every request sweeps the store: a dirty record
\* left behind more than SESSION_STORE_TTL_MS ago is gone when the before
\* phase of the next request, of whatever session, has ended.
C28_SweptByNextRequest ==
  [][\A r \in Slots :
       C23_BeforeEnds(r) =>
         \A id \in Ids :
           (/\ IsDirty(sessionStore[id])
            /\ now - sessionStore[id].timestamp > SESSION_STORE_TTL_MS)
           => sessionStore'[id] = NoEntry]_vars

\* The step is a call of cleanupSessionStore.
C29_SweepStep == last'.op = "cleanup" /\ last' # last

\* C29: cleanupSessionStore removes expired records only: a record whose age
\* is at most SESSION_STORE_TTL_MS, the window itself included, is in the
\* store afterwards with the same payload, dirty flag and timestamp.
C29_KeepsUnexpired ==
  [][C29_SweepStep =>
       \A id \in Ids :
         (/\ sessionStore[id] # NoEntry
          /\ now - sessionStore[id].timestamp <= SESSION_STORE_TTL_MS)
         => sessionStore'[id] = sessionStore[id]]_vars

\* A sweep has kept a record exactly as old as the window and has removed
\* the record of the other session, which was older.
C29_Witness ==
  /\ last.op = "cleanup" /\ last.at = now
  /\ last.removed # {}
  /\ \E id \in Ids :
       /\ sessionStore[id] # NoEntry
       /\ now - sessionStore[id].timestamp = SESSION_STORE_TTL_MS

\* The Domain attribute by the stated rule.
C30_Expected(configured, hostname) ==
  IF configured # NoDomain THEN configured
  ELSE IF isLocalhost(hostname) THEN NoDomain
  ELSE Domain(TRUE, replaceWww(hostname))

\* C30: on every emission path the Domain attribute of the session-data
\* cookie is the configured domain if there is one, else none for localhost
\* and 127.0.0.1, else the request's hostname without a leading "www." and
\* with a leading dot.
C30_DomainRule ==
  last.op = "Set-Cookie" =>
    last.domain = C30_Expected(resolvedConfig.cookieOptions.domain, last.hostname)

\* C31: a session-data cookie emitted by a driver created without
\* cookieOptions.secure carries Secure exactly when the request's scheme is
\* https; a driver created with cookieOptions.secure emits what was set.
C31_SecureFollowsScheme ==
  last.op = "Set-Cookie" =>
    last.secure = IF last.optSecure = Unset THEN last.scheme = "https"
                  ELSE TRUE \in last.optSecure

\* C32: clear() leaves no record in the store, whichever session it belongs
\* to and whether it is clean, dirty or a tombstone; dispose() changes
\* neither the store nor the resolved configuration.
C32_ClearAndDispose ==
  [][/\ (last'.op = "clear" /\ now' = now)
        => /\ \A id \in Ids : sessionStore'[id] = NoEntry
           /\ UNCHANGED <<resolvedConfig, driver>>
     /\ (last'.op = "dispose" /\ now' = now)
        => UNCHANGED <<sessionStore, resolvedConfig, driver>>]_vars

\* clear() has emptied a store that held an unsent payload of one session and
\* a tombstone of another.
C32_Witness ==
  /\ last.op = "clear"
  /\ sessionStore = EmptyStore
  /\ \E id \in Ids, o \in Ids :
       /\ IsDirty(last.cleared[id]) /\ HasData(last.cleared[id])
       /\ IsDirty(last.cleared[o]) /\ ~HasData(last.cleared[o])

\* C33: injectSessionCookieIfNeeded changes nothing unless the response sets
\* an astro-session cookie and, one tick later, the store holds a dirty record
\* with a payload for that id.  Then it appends one session-data Set-Cookie to
\* the response's headers, keeps the status, and marks the record clean at the
\* current time.  A record that is not ready is not waited for.
C33_FallbackOnlyWhenReady ==
  [][\A r \in Slots :
       /\ (req[r].pc = "itick" /\ req'[r].pc # "itick")
          => LET id == req[r].newSid
                 entry == sessionStore[id]
             IN /\ id # NoId
                /\ req'[r].pc = "done"
                /\ req'[r].status = req[r].status
                /\ IF IsDirty(entry) /\ HasData(entry)
                   THEN /\ req'[r].hdr = Append(req[r].hdr, SetCookie(entry.data))
                        /\ sessionStore' =
                             [sessionStore EXCEPT ![id] = Entry(entry.data, FALSE, now)]
                   ELSE /\ req'[r].hdr = req[r].hdr
                        /\ sessionStore' = sessionStore
       /\ (req[r].pc = "after" /\ req'[r].pc # "after" /\ req[r].newSid = NoId)
          => /\ req'[r].pc = "done"
             /\ ~req[r].sync => (req'[r].hdr = req[r].hdr /\ sessionStore' = sessionStore)]_vars

\* A response that refreshed the astro-session cookie of its request has got
\* the session's payload appended, and the record is clean.
C33_Witness ==
  \E r \in Slots :
    /\ req[r].pc = "done"
    /\ req[r].sid # NoId /\ req[r].newSid = req[r].sid
    /\ req[r].hdr # << >>
    /\ req[r].hdr[Len(req[r].hdr)] = SetCookie(sessionStore[req[r].sid].data)
    /\ sessionStore[req[r].sid] = Entry(sessionStore[req[r].sid].data, FALSE, now)

\* C34: once removeItem(id) has completed and until a setItem(id, .) follows,
\* getItem(id) returns null: in the same request, after the response, after
\* the tombstone has been swept, and in later requests that still send the
\* session-data cookie.
C34_DestroyedStaysDestroyed ==
  [][\A id \in Ids :
       (/\ last'.op = "getItem" /\ last' # last /\ last'.id = id
        /\ lastWrite[id].kind = "write"
        /\ lastWrite[id].data = Empty)
       => last'.result = Null]_vars

\* C35: a handler whose request carries a session id and a session-data
\* cookie that unseals under the driver's password and has not expired reads
\* a value with getItem, as long as nothing has been written to or removed
\* from the session.
C35_CookieIsReadable ==
  [][\A r \in Slots :
       (/\ req[r].pc = "handler"
        /\ last'.op = "getItem" /\ last' # last
        /\ req'[r].ops = req[r].ops + 1
        /\ req[r].sid # NoId /\ last'.id = req[r].sid
        /\ req[r].cookie # NoCookie
        /\ unsealData(req[r].cookie, driver.password, now) # Null
        /\ lastWrite[req[r].sid] = NoWrite)
       => last'.result # Null]_vars

\* C36: a payload stored by one setItem goes out in at most one session-data
\* Set-Cookie: a step that attaches the record's payload to a response does
\* not leave the record dirty, and does not attach a payload that has been
\* attached before with no setItem in between.
C36_EmittedOnce ==
  [][\A r \in Slots :
       LET id == CurSid(req[r])
       IN (/\ id # NoId
           /\ sessionStore[id] # NoEntry
           /\ req'[r].hdr = Append(req[r].hdr, SetCookie(sessionStore[id].data)))
          => /\ ~IsDirty(sessionStore'[id])
             /\ ~(/\ lastWrite[id].kind = "write"
                  /\ lastWrite[id].data = sessionStore[id].data
                  /\ lastWrite[id].delivered)]_vars

\* The session a step of the request in slot r may attach a payload for: the
\* one it arrived with, or the one its handler created.
C37_OwnSessions(r) == {req[r].sid, req[r].newSid} \ {NoId}

C38_HasItemMeansReadable ==
  \A id \in Ids :
    (driver # NoConfig /\ hasItemResult(sessionStore, id))
    => getItemResult(sessionStore, driver, id, now, FALSE) # Null

====
